---- MODULE Spec2Model ----
(***************************************************************************)
(* A model of function.h: the type-erased callable container               *)
(* function<R(Args...)>, its per-type operation records (type_descriptor)  *)
(* and its one-pointer storage slot (storage_t).                           *)
(*                                                                         *)
(* Containers are numbered objects.  Every public operation is expanded    *)
(* into the sequence of statements its body executes (todo), and one       *)
(* statement is executed per step, so that the states between two          *)
(* statements of a constructor or an assignment are states of the model.   *)
(* No public operation starts while another one is running.  last and pre  *)
(* record the call in progress and the state it started from, until the    *)
(* call returns.                                                           *)
(***************************************************************************)
EXTENDS Integers, Sequences, FiniteSets, TLC

\* ------------------------------------------------------------- bounds
NumConts == 2       \* named container objects the client program declares
MaxAllocs == 3      \* cap on the allocation counter

\* ------------------------------------------------- platform constants
PtrSize == 8        \* sizeof(void*)
PtrAlign == 8       \* alignof(void*)

\* ---------------------------------------------------------- universes
Users == 1..NumConts
TmpCopy == NumConts + 1      \* the temporary function(rhs) of operator=(const&)
TmpSwap == NumConts + 2      \* the local tmp of swap
ContIds == 1..(NumConts + 2)
Addrs == 1..(NumConts + 1)   \* heap cells: one per container plus the temporary copy
Vals == {1, 2}               \* the state captured by a stored callable
ArgVals == {1, 2}            \* the argument of a call

\* The concrete callable types the client stores: a lambda capturing one int,
\* a second closure type of identical layout, and a 64-byte functor.
\* Big's move constructor may throw; the closures' cannot.
Types == {"Small", "Twin", "Big"}

SizeOf(T) == IF T = "Big" THEN 64 ELSE 4
AlignOf(T) == IF T = "Big" THEN 8 ELSE 4
NothrowMove(T) == T # "Big"

\* Variant: the alignment test has its operands the wrong way round.
is_small_AlignSwapped(T) ==
    SizeOf(T) <= PtrSize /\ NothrowMove(T) /\ AlignOf(T) % PtrAlign = 0

is_small(T) == SizeOf(T) <= PtrSize /\ NothrowMove(T) /\ PtrAlign % AlignOf(T) = 0

\* ------------------------------------------------- operation records
\* A record is identified by its address; there is one static object per
\* instantiation of get_func_descriptor<T> and one for the empty record.
get_empty_func_descriptor == [rec |-> "empty", t |-> "none"]

\* Variant: one record shared by the types of one layout.
get_func_descriptor_ByLayout(T) == [rec |-> "func", t |-> IF T = "Twin" THEN "Small" ELSE T]

get_func_descriptor(T) == [rec |-> "func", t |-> T]

Descs == {get_empty_func_descriptor} \cup {get_func_descriptor(T) : T \in Types}

\* --------------------------------------------------- slot and heap
\* What the bytes of a storage_t currently are.
Uninit == [k |-> "uninit", t |-> "none", v |-> 0, a |-> 0]
Gone == [k |-> "gone", t |-> "none", v |-> 0, a |-> 0]
InlineObj(T, v) == [k |-> "obj", t |-> T, v |-> v, a |-> 0]
PtrTo(a) == [k |-> "ptr", t |-> "none", v |-> 0, a |-> a]

FreeCell == [used |-> FALSE, t |-> "none", v |-> 0]
HeapObj(T, v) == [used |-> TRUE, t |-> T, v |-> v]

\* A container object: desc and buf, and whether the object exists.
NoObject == [live |-> FALSE, desc |-> get_empty_func_descriptor, buf |-> Uninit]

\* allocs and deallocs count operator new and operator delete.  made and
\* ended count the T objects constructed in a slot and the destructors run
\* on a slot during the call in progress; inl is all in-slot constructions
\* less all in-slot destructions so far.
VARIABLES conts, heap, allocs, deallocs, made, ended, inl, err, todo, last, pre

vars == <<conts, heap, allocs, deallocs, made, ended, inl, err, todo, last, pre>>

\* The program state the statements act on.
Cur == [conts |-> conts, heap |-> heap, allocs |-> allocs,
        deallocs |-> deallocs, made |-> made, ended |-> ended, inl |-> inl,
        err |-> err]

Commit(S) ==
    /\ conts' = S.conts
    /\ heap' = S.heap
    /\ allocs' = S.allocs
    /\ deallocs' = S.deallocs
    /\ made' = S.made
    /\ ended' = S.ended
    /\ inl' = S.inl
    /\ err' = S.err

SetCont(S, c, f, x) == [S EXCEPT !.conts[c][f] = x]

\* new (&buf) T(v): a T is constructed in the slot of c.
PlaceNew(S, c, T, v) ==
    [S EXCEPT !.conts[c].buf = InlineObj(T, v), !.made = @ + 1, !.inl = @ + 1]

\* get_pointer<T>(buf)->~T(): the T in the slot of c is destroyed.
RunDtor(S, c) ==
    [S EXCEPT !.conts[c].buf = Gone, !.ended = @ + 1, !.inl = @ - 1]

\* Undefined behaviour: the run stops being meaningful; nothing runs after it.
UB(S, what) == [S EXCEPT !.err = what]

\* ------------------------------------------------------ get_pointer
\* Does the slot of c hold a live T laid out per is_small(T)?
HasLive(S, T, c) ==
    LET b == S.conts[c].buf
    IN IF is_small(T)
       THEN b.k = "obj" /\ b.t = T
       ELSE b.k = "ptr" /\ S.heap[b.a].used /\ S.heap[b.a].t = T

\* Variant: the slot is always read as the T itself, never as a pointer to it.
get_pointer_Direct(S, T, c) ==
    LET b == S.conts[c].buf
    IN [where |-> "buf", c |-> c, a |-> 0, t |-> b.t, v |-> b.v]

\* The T a get_pointer<T>(buf) view refers to: the slot itself or the pointee.
get_pointer(S, T, c) ==
    LET b == S.conts[c].buf
    IN IF is_small(T)
       THEN [where |-> "buf", c |-> c, a |-> 0, t |-> b.t, v |-> b.v]
       ELSE [where |-> "heap", c |-> c, a |-> b.a,
             t |-> IF b.k = "ptr" THEN S.heap[b.a].t ELSE "none",
             v |-> IF b.k = "ptr" THEN S.heap[b.a].v ELSE 0]

NullView == [where |-> "null", c |-> 0, a |-> 0, t |-> "none", v |-> 0]

\* ------------------------------------------ the records' operations
\* Results of a statement that can fail.
CopyOutcomes(S, d) ==
    IF d.rec = "empty" THEN {"ok"}
    ELSE IF is_small(d.t) THEN {"ok", "throw"}
    ELSE {"bad_alloc"} \cup
         (IF \E x \in Addrs : ~S.heap[x].used THEN {"ok", "throw"} ELSE {})

\* new T(std::move(val)) throws only if the allocation or T's move does.
StoreOutcomes(S, T) ==
    {"bad_alloc"} \cup
    (IF \E x \in Addrs : ~S.heap[x].used
     THEN {"ok"} \cup (IF NothrowMove(T) THEN {} ELSE {"throw"})
     ELSE {})

FreeAddrs(S) == {x \in Addrs : ~S.heap[x].used}

\* The cells operator new may return.  An address means nothing beyond
\* which slots hold it: the free cells no slot refers to are interchangeable
\* and the lowest stands for them all; a free cell that a slot still refers
\* to (a stale pointer) is a result of its own.
NewAddrs(S) ==
    LET stale == {x \in FreeAddrs(S) : \E c \in ContIds : S.conts[c].buf = PtrTo(x)}
        fresh == FreeAddrs(S) \ stale
    IN stale \cup {x \in fresh : \A y \in fresh : x <= y}

\* Variant: the memory is not given back when T's constructor throws.
NewT_NoRelease(S, T, v, addr, outcome) ==
    IF outcome = "ok"
    THEN [S EXCEPT !.heap[addr] = HeapObj(T, v), !.allocs = @ + 1]
    ELSE IF outcome = "throw"
    THEN [S EXCEPT !.allocs = @ + 1]
    ELSE S

\* new T(v): allocate the cell addr and construct a T in it.  A constructor
\* that throws makes the new-expression give the cell back.
NewT(S, T, v, addr, outcome) ==
    IF outcome = "ok"
    THEN [S EXCEPT !.heap[addr] = HeapObj(T, v), !.allocs = @ + 1]
    ELSE IF outcome = "throw"
    THEN [S EXCEPT !.allocs = @ + 1, !.deallocs = @ + 1]
    ELSE S

\* Variant: the copy of a non-small T copies the pointer, not the pointee.
desc_copy_Shallow(S, d, src, dst, addr, outcome) ==
    IF d.rec = "empty" \/ outcome # "ok" THEN S
    ELSE SetCont(S, dst, "buf", S.conts[src].buf)

\* type_descriptor::copy of the record d: src -> dst.
desc_copy(S, d, src, dst, addr, outcome) ==
    IF d.rec = "empty" THEN S
    ELSE IF ~HasLive(S, d.t, src) THEN UB(S, "bad_read")
    ELSE LET from == get_pointer(S, d.t, src)
         IN IF is_small(d.t)
            THEN IF outcome = "ok"
                 THEN PlaceNew(S, dst, d.t, from.v)
                 ELSE S
            ELSE IF outcome = "ok"
                 THEN SetCont(NewT(S, d.t, from.v, addr, outcome), dst, "buf", PtrTo(addr))
                 ELSE NewT(S, d.t, from.v, addr, outcome)

\* Variant: the move of a small T leaves the moved-from object undestroyed.
desc_move_KeepsSource(S, d, src, dst) ==
    IF d.rec = "empty" THEN S
    ELSE IF is_small(d.t)
    THEN IF ~HasLive(S, d.t, src) THEN UB(S, "bad_read")
         ELSE LET from == get_pointer(S, d.t, src)
              IN PlaceNew(S, dst, d.t, from.v)
    ELSE IF S.conts[src].buf.k = "uninit" THEN UB(S, "bad_read")
         ELSE SetCont(S, dst, "buf", S.conts[src].buf)

\* type_descriptor::move of the record d: src -> dst.
desc_move(S, d, src, dst) ==
    IF d.rec = "empty" THEN S
    ELSE IF is_small(d.t)
    THEN IF ~HasLive(S, d.t, src) THEN UB(S, "bad_read")
         ELSE LET from == get_pointer(S, d.t, src)
              IN RunDtor(PlaceNew(S, dst, d.t, from.v), src)
    ELSE IF S.conts[src].buf.k = "uninit" THEN UB(S, "bad_read")
         ELSE SetCont(S, dst, "buf", S.conts[src].buf)

\* Variant: destroy never gives a heap payload back.
desc_destroy_Leak(S, d, c) ==
    IF d.rec = "empty" THEN S
    ELSE IF is_small(d.t) THEN RunDtor(S, c)
    ELSE S

\* type_descriptor::destroy of the record d on the slot of c.
desc_destroy(S, d, c) ==
    IF d.rec = "empty" THEN S
    ELSE IF is_small(d.t)
    THEN IF ~HasLive(S, d.t, c) THEN UB(S, "bad_destroy")
         ELSE RunDtor(S, c)
    ELSE IF ~HasLive(S, d.t, c) THEN UB(S, "bad_delete")
         ELSE [S EXCEPT !.heap[S.conts[c].buf.a] = FreeCell, !.deallocs = @ + 1]

\* What a stored callable of type T with captured state v returns for x.
Call(T, v, x) ==
    IF T = "Small" THEN v + x
    ELSE IF T = "Twin" THEN v * x
    ELSE 10 * v + x

\* type_descriptor::invoke of the record d on the slot of c.
desc_invoke(S, d, c, x) ==
    IF d.rec = "empty"
    THEN [res |-> "bad_function_call", ret |-> 0, read |-> FALSE]
    ELSE IF ~HasLive(S, d.t, c)
    THEN [res |-> "ub", ret |-> 0, read |-> TRUE]
    ELSE LET f == get_pointer(S, d.t, c)
         IN [res |-> "ok", ret |-> Call(d.t, f.v, x), read |-> TRUE]

\* ------------------------------------------------- const members
\* Variant: the comparison with the empty record is inverted.
Bool_Inverted(S, c) == S.conts[c].desc = get_empty_func_descriptor

\* explicit operator bool
Bool(S, c) == S.conts[c].desc # get_empty_func_descriptor

\* target<T>()
target(S, c, T) ==
    IF S.conts[c].desc = get_func_descriptor(T)
    THEN get_pointer(S, T, c)
    ELSE NullView

\* Variant: a call of an empty container returns a default R.
CallOperator_Silent(S, c, x) ==
    IF S.conts[c].desc.rec = "empty"
    THEN [res |-> "ok", ret |-> 0, read |-> FALSE]
    ELSE desc_invoke(S, S.conts[c].desc, c, x)

\* Variant: the emptiness test of operator() is inverted.
CallOperator_Inverted(S, c, x) ==
    IF Bool(S, c)
    THEN [res |-> "bad_function_call", ret |-> 0, read |-> FALSE]
    ELSE desc_invoke(S, S.conts[c].desc, c, x)

\* operator()
CallOperator(S, c, x) ==
    IF ~Bool(S, c)
    THEN [res |-> "bad_function_call", ret |-> 0, read |-> FALSE]
    ELSE desc_invoke(S, S.conts[c].desc, c, x)

\* ------------------------------------- statements of the operations
Stmt(k, a, b) == [k |-> k, a |-> a, b |-> b, t |-> "none", v |-> 0]
StmtV(k, a, T, v) == [k |-> k, a |-> a, b |-> 0, t |-> T, v |-> v]

\* function()
DefaultCtorOps(c) == <<Stmt("init_empty", c, 0)>>

\* function(T val)
ValueCtorOps(c, T, v) == <<StmtV("init_type", c, T, v), StmtV("store", c, T, v)>>

\* Variant: the copy constructor calls desc->move.
CopyCtorOps_CallsMove(c, o) == <<Stmt("init_from", c, o), Stmt("move", c, o)>>

\* function(function const& other)
CopyCtorOps(c, o) == <<Stmt("init_from", c, o), Stmt("copy", c, o)>>

\* Variant: the source is not re-bound to the empty record.
MoveCtorOps_NoRebind(c, o) == <<Stmt("init_from", c, o), Stmt("move", c, o)>>

\* function(function&& other)
MoveCtorOps(c, o) == <<Stmt("init_from", c, o), Stmt("move", c, o), Stmt("set_empty", o, 0)>>

\* ~function()
DtorOps(c) == <<Stmt("destroy", c, 0), Stmt("end", c, 0)>>

\* Variant: move assignment without the re-binding of rhs.
MoveAssignOps_NoRebind(a, r) ==
    IF a = r THEN <<>>
    ELSE <<Stmt("destroy", a, 0), Stmt("assign_from", a, r), Stmt("move", a, r)>>

\* Variant: move assignment without the this == &rhs test.
MoveAssignOps_NoSelfCheck(a, r) ==
    <<Stmt("destroy", a, 0), Stmt("assign_from", a, r),
      Stmt("move", a, r), Stmt("set_empty", r, 0)>>

\* Variant: move assignment does not destroy the payload *this holds.
MoveAssignOps_NoDestroy(a, r) ==
    IF a = r THEN <<>>
    ELSE <<Stmt("assign_from", a, r), Stmt("move", a, r), Stmt("set_empty", r, 0)>>

\* Variant: move assignment does not take over rhs's record.
MoveAssignOps_NoAdopt(a, r) ==
    IF a = r THEN <<>>
    ELSE <<Stmt("destroy", a, 0), Stmt("move", a, r), Stmt("set_empty", r, 0)>>

\* Variant: move assignment destroys only after it has taken rhs's payload.
MoveAssignOps_DestroyLast(a, r) ==
    IF a = r THEN <<>>
    ELSE <<Stmt("assign_from", a, r), Stmt("move", a, r), Stmt("destroy", a, 0),
           Stmt("set_empty", r, 0)>>

\* operator=(function&& rhs)
MoveAssignOps(a, r) ==
    IF a = r THEN <<>>
    ELSE <<Stmt("destroy", a, 0), Stmt("assign_from", a, r),
           Stmt("move", a, r), Stmt("set_empty", r, 0)>>

\* Variant: swap without the temporary; other's payload is lost.
SwapOps_NoTemporary(this, other) ==
    MoveAssignOps(this, other) \o MoveAssignOps(other, this)

\* swap(function& other), called on this
SwapOps(this, other) ==
    MoveCtorOps(TmpSwap, this) \o MoveAssignOps(this, other)
        \o MoveAssignOps(other, TmpSwap) \o DtorOps(TmpSwap)

\* Variant: copy assignment destroys *this and copies rhs in place.
CopyAssignOps_InPlace(a, r) ==
    IF a = r THEN <<>>
    ELSE <<Stmt("destroy", a, 0), Stmt("assign_from", a, r), Stmt("copy", a, r)>>

\* operator=(function const& rhs)
CopyAssignOps(a, r) ==
    IF a = r THEN <<>>
    ELSE CopyCtorOps(TmpCopy, r) \o SwapOps(TmpCopy, a) \o DtorOps(TmpCopy)

\* ------------------------------------------------------------ state
InitState ==
    [conts |-> [c \in ContIds |-> NoObject],
     heap |-> [x \in Addrs |-> FreeCell],
     allocs |-> 0, deallocs |-> 0, made |-> 0, ended |-> 0, inl |-> 0,
     err |-> "none"]

NoCall == [op |-> "none", a |-> 0, b |-> 0, t |-> "none", v |-> 0,
           res |-> "ok", ret |-> 0, read |-> FALSE, view |-> NullView]

Init ==
    /\ conts = InitState.conts
    /\ heap = InitState.heap
    /\ allocs = 0
    /\ deallocs = 0
    /\ made = 0
    /\ ended = 0
    /\ inl = 0
    /\ err = "none"
    /\ todo = <<>>
    /\ last = NoCall
    /\ pre = InitState

\* No member is running and the last call has returned to the client.
Idle == todo = <<>> /\ err = "none" /\ last.op = "none"

Live(c) == conts[c].live

\* c is bound to the record of a non-small type: its slot is an owning pointer.
Owns(S, c) ==
    /\ S.conts[c].live
    /\ S.conts[c].desc.rec = "func"
    /\ ~is_small(S.conts[c].desc.t)

\* Is there room under the cap on the allocation counter?
Room == allocs < MaxAllocs

\* A public operation is called: its statements are queued.
Begin(op, a, b, T, v, ops) ==
    /\ Idle
    /\ todo' = ops
    /\ last' = [op |-> op, a |-> a, b |-> b, t |-> T, v |-> v,
                res |-> IF ops = <<>> THEN "ok" ELSE "pending",
                ret |-> 0, read |-> FALSE, view |-> NullView]
    /\ pre' = Cur
    /\ UNCHANGED <<conts, heap, allocs, deallocs, made, ended, inl, err>>

\* A const member is called and returns at once.
Query(op, c, T, x, r, view) ==
    /\ Idle
    /\ last' = [op |-> op, a |-> c, b |-> 0, t |-> T, v |-> x,
                res |-> r.res, ret |-> r.ret, read |-> r.read, view |-> view]
    /\ pre' = Cur
    /\ UNCHANGED <<conts, heap, allocs, deallocs, made, ended, inl, err, todo>>

\* One statement has run: S is the state it leaves.
Done(S) ==
    /\ Commit(S)
    /\ todo' = Tail(todo)
    /\ last' = IF Tail(todo) = <<>> /\ S.err = "none"
               THEN [last EXCEPT !.res = "ok"] ELSE last
    /\ UNCHANGED pre

\* A constructor of c exits by an exception: c never comes into existence and
\* the exception leaves the public operation that was running.
Thrown(S, c, outcome) ==
    /\ Commit([S EXCEPT !.conts[c] = NoObject])
    /\ todo' = <<>>
    /\ last' = [last EXCEPT !.res = outcome]
    /\ UNCHANGED pre

Running(k) == err = "none" /\ todo # <<>> /\ Head(todo).k = k

\* --------------------------------------------- the public operations
DefaultConstruct(c) ==
    /\ ~Live(c)
    /\ Begin("default_ctor", c, 0, "none", 0, DefaultCtorOps(c))

ValueConstruct(c, T, v) ==
    /\ ~Live(c)
    /\ is_small(T) \/ Room
    /\ Begin("value_ctor", c, 0, T, v, ValueCtorOps(c, T, v))

CopyConstruct(c, o) ==
    /\ ~Live(c) /\ Live(o)
    /\ Owns(Cur, o) => Room
    /\ Begin("copy_ctor", c, o, "none", 0, CopyCtorOps(c, o))

MoveConstruct(c, o) ==
    /\ ~Live(c) /\ Live(o)
    /\ Begin("move_ctor", c, o, "none", 0, MoveCtorOps(c, o))

CopyAssign(a, r) ==
    /\ Live(a) /\ Live(r)
    /\ Owns(Cur, r) => Room
    /\ Begin("copy_assign", a, r, "none", 0, CopyAssignOps(a, r))

MoveAssign(a, r) ==
    /\ Live(a) /\ Live(r)
    /\ Begin("move_assign", a, r, "none", 0, MoveAssignOps(a, r))

Destroy(c) ==
    /\ Live(c)
    /\ Begin("dtor", c, 0, "none", 0, DtorOps(c))

OperatorBool(c) ==
    /\ Live(c)
    /\ Query("bool", c, "none", 0,
             [res |-> IF Bool(Cur, c) THEN "true" ELSE "false", ret |-> 0, read |-> FALSE],
             NullView)

Invoke(c, x) ==
    /\ Live(c)
    /\ Query("call", c, "none", x, CallOperator(Cur, c, x), NullView)

Target(c, T) ==
    /\ Live(c)
    /\ Query("target", c, T, 0, [res |-> "ok", ret |-> 0, read |-> FALSE],
             target(Cur, c, T))

\* The pointee of a target<T>() view is assigned: *c.target<T>() = v.
WriteThrough(S, p, v) ==
    IF p.where = "buf" THEN [S EXCEPT !.conts[p.c].buf.v = v]
    ELSE IF p.where = "heap" THEN [S EXCEPT !.heap[p.a].v = v]
    ELSE S

TargetWrite(c, T, v) ==
    /\ Live(c) /\ Idle
    /\ target(Cur, c, T) # NullView
    /\ Commit(WriteThrough(Cur, target(Cur, c, T), v))
    /\ last' = [op |-> "target_write", a |-> c, b |-> 0, t |-> T, v |-> v,
                res |-> "ok", ret |-> 0, read |-> TRUE, view |-> target(Cur, c, T)]
    /\ pre' = Cur
    /\ UNCHANGED todo

\* The member that was called returns (or its exception reaches the
\* client): the client is free to call the next one.
Return ==
    /\ todo = <<>> /\ err = "none" /\ last.op # "none"
    /\ last' = NoCall
    /\ pre' = InitState
    /\ made' = 0
    /\ ended' = 0
    /\ UNCHANGED <<conts, heap, allocs, deallocs, inl, err, todo>>

\* ------------------------------------------------- the statements
\* : desc(get_empty_func_descriptor())
InitEmpty ==
    /\ Running("init_empty")
    /\ Done([Cur EXCEPT !.conts[Head(todo).a] =
                [live |-> TRUE, desc |-> get_empty_func_descriptor, buf |-> Uninit]])

\* : desc(get_func_descriptor<T>())
InitType ==
    /\ Running("init_type")
    /\ Done([Cur EXCEPT !.conts[Head(todo).a] =
                [live |-> TRUE, desc |-> get_func_descriptor(Head(todo).t), buf |-> Uninit]])

\* : desc(other.desc)
InitFrom ==
    /\ Running("init_from")
    /\ Done([Cur EXCEPT !.conts[Head(todo).a] =
                [live |-> TRUE, desc |-> conts[Head(todo).b].desc, buf |-> Uninit]])

\* the body of function(T val)
StoreValue ==
    /\ Running("store")
    /\ LET c == Head(todo).a
           T == Head(todo).t
           v == Head(todo).v
       IN IF is_small(T)
          THEN Done(PlaceNew(Cur, c, T, v))
          ELSE \E outcome \in StoreOutcomes(Cur, T) :
                 IF outcome = "ok"
                 THEN \E addr \in NewAddrs(Cur) :
                        Done(SetCont(NewT(Cur, T, v, addr, "ok"), c, "buf", PtrTo(addr)))
                 ELSE Thrown(NewT(Cur, T, v, 0, outcome), c, outcome)

\* desc->copy(other.buf, buf)
DescCopy ==
    /\ Running("copy")
    /\ LET c == Head(todo).a
           o == Head(todo).b
           d == conts[c].desc
       IN \E outcome \in CopyOutcomes(Cur, d) :
            IF outcome = "ok"
            THEN \E addr \in (IF d.rec = "func" /\ ~is_small(d.t)
                              THEN NewAddrs(Cur) ELSE {0}) :
                   Done(desc_copy(Cur, d, o, c, addr, "ok"))
            ELSE Thrown(desc_copy(Cur, d, o, c, 0, outcome), c, outcome)

\* desc->move(other.buf, buf)
DescMove ==
    /\ Running("move")
    /\ Done(desc_move(Cur, conts[Head(todo).a].desc, Head(todo).b, Head(todo).a))

\* desc->destroy(buf)
DescDestroy ==
    /\ Running("destroy")
    /\ Done(desc_destroy(Cur, conts[Head(todo).a].desc, Head(todo).a))

\* desc = rhs.desc
AssignDesc ==
    /\ Running("assign_from")
    /\ Done(SetCont(Cur, Head(todo).a, "desc", conts[Head(todo).b].desc))

\* other.desc = get_empty_func_descriptor()
RebindEmpty ==
    /\ Running("set_empty")
    /\ Done(SetCont(Cur, Head(todo).a, "desc", get_empty_func_descriptor))

\* the object's lifetime ends after its destructor's body
EndLifetime ==
    /\ Running("end")
    /\ Done([Cur EXCEPT !.conts[Head(todo).a] = NoObject])

Next ==
    \/ \E c \in Users : DefaultConstruct(c)
    \/ \E c \in Users, T \in Types, v \in Vals : ValueConstruct(c, T, v)
    \/ \E c \in Users, o \in Users : CopyConstruct(c, o)
    \/ \E c \in Users, o \in Users : MoveConstruct(c, o)
    \/ \E a \in Users, r \in Users : CopyAssign(a, r)
    \/ \E a \in Users, r \in Users : MoveAssign(a, r)
    \/ \E c \in Users : Destroy(c)
    \/ \E c \in Users : OperatorBool(c)
    \/ \E c \in Users, x \in ArgVals : Invoke(c, x)
    \/ \E c \in Users, T \in Types : Target(c, T)
    \/ \E c \in Users, T \in Types, v \in Vals : TargetWrite(c, T, v)
    \/ Return
    \/ InitEmpty
    \/ InitType
    \/ InitFrom
    \/ StoreValue
    \/ DescCopy
    \/ DescMove
    \/ DescDestroy
    \/ AssignDesc
    \/ RebindEmpty
    \/ EndLifetime

Spec == Init /\ [][Next]_vars

\* ------------------------------------------------ notions of the claims
\* The logical state of container c in S: no object, Empty, or Holding(T)
\* with the value read through the slot.
Held(S, c) ==
    IF ~S.conts[c].live THEN [st |-> "none", t |-> "none", v |-> 0]
    ELSE IF S.conts[c].desc.rec = "empty" THEN [st |-> "empty", t |-> "none", v |-> 0]
    ELSE LET p == get_pointer(S, S.conts[c].desc.t, c)
         IN [st |-> "holding", t |-> p.t, v |-> p.v]

Owners(S, x) == {c \in ContIds : Owns(S, c) /\ S.conts[c].buf = PtrTo(x)}

\* Two containers that both claim the same heap payload.
Aliased(c, d) ==
    /\ c # d
    /\ Owns(Cur, c) /\ Owns(Cur, d)
    /\ conts[c].buf = conts[d].buf

\* A call has run to its end and is about to return.
Returning == todo = <<>> /\ last.op # "none"

Completed(op) == todo = <<>> /\ last.op = op /\ last.res = "ok"

Failed == last.res \in {"throw", "bad_alloc"}

\* What destroying c now would do.
Destroyed(c) == desc_destroy(Cur, conts[c].desc, c)

\* ---------------------------------------------------------------- C1
\* C1: after move construction of c2 from c1, c1 is empty and bool(c1) is
\* false, c2 holds exactly what c1 held, the heap and both counters are
\* untouched, and destroying c1 would release nothing.
C1_MoveConstructTransfers ==
    Completed("move_ctor") =>
        /\ conts[last.b].live
        /\ conts[last.b].desc = get_empty_func_descriptor
        /\ ~Bool(Cur, last.b)
        /\ Held(Cur, last.a) = Held(pre, last.b)
        /\ heap = pre.heap
        /\ allocs = pre.allocs /\ deallocs = pre.deallocs
        /\ Destroyed(last.b) = Cur

C1_Witness ==
    /\ Completed("move_ctor")
    /\ Owns(pre, last.b)
    /\ Owns(Cur, last.a)

\* ---------------------------------------------------------------- C2
\* C2: a value construction or a copy of a non-small holder allocates
\* exactly once, moves allocate nothing, a payload is freed exactly once,
\* when its owner is destroyed or its value replaced; so between operations
\* allocs - deallocs is the number of containers holding a non-small value,
\* nothing is freed twice, and the counts agree once nothing is alive.
AllocsExpected ==
    IF last.op = "value_ctor" THEN (IF is_small(last.t) THEN 0 ELSE 1)
    ELSE IF last.op \in {"copy_ctor", "copy_assign"} /\ last.a # last.b
    THEN (IF Owns(pre, last.b) THEN 1 ELSE 0)
    ELSE 0

DeallocsExpected ==
    IF last.op = "dtor" \/ (last.op \in {"copy_assign", "move_assign"} /\ last.a # last.b)
    THEN (IF Owns(pre, last.a) THEN 1 ELSE 0)
    ELSE 0

C2_AllocationAccounting ==
    /\ err = "none"
    /\ todo = <<>> =>
        /\ allocs - deallocs = Cardinality({c \in ContIds : Owns(Cur, c)})
        /\ allocs - deallocs = Cardinality({x \in Addrs : heap[x].used})
        /\ (\A c \in ContIds : ~conts[c].live) => allocs = deallocs
        /\ Returning /\ last.res = "ok" =>
            /\ allocs = pre.allocs + AllocsExpected
            /\ deallocs = pre.deallocs + DeallocsExpected

C2_Witness ==
    /\ Completed("dtor")
    /\ \A c \in ContIds : ~conts[c].live
    /\ allocs = 2 /\ deallocs = 2

\* ---------------------------------------------------------------- C3
\* C3: between public operations no two live containers bound to a
\* non-empty record hold the same heap pointer, and every live heap payload
\* is owned by exactly one live container.
C3_ExclusiveOwnership ==
    todo = <<>> =>
        /\ \A c, d \in ContIds : ~Aliased(c, d)
        /\ \A x \in Addrs : heap[x].used => Cardinality(Owners(Cur, x)) = 1
        /\ \A c \in ContIds : Owns(Cur, c) => HasLive(Cur, conts[c].desc.t, c)

\* A moved-from container still has the pointer bytes its payload's new
\* owner has; it is bound to the empty record.
C3_Witness ==
    /\ todo = <<>>
    /\ \E c, d \in Users :
        /\ Owns(Cur, c)
        /\ conts[d].live /\ ~Bool(Cur, d)
        /\ conts[d].buf = conts[c].buf

\* ---------------------------------------------------------------- C4
\* C4 as stated: in no state, the states inside a move included, are two
\* containers both bound to a non-empty record with the same heap pointer.
C4_NoDoubleOwnershipWindow ==
    \A c, d \in ContIds : ~Aliased(c, d)

\* C4 amended: two containers are both bound to a non-empty record with
\* the same heap pointer only inside a move, in two kinds of state: after
\* the destination of a move assignment has taken the source's record and
\* before the pointer copy overwrites its slot, and after the pointer copy
\* and before the source is re-bound to the empty record.  In each the next
\* statement to run is that pointer copy into, or that re-binding of, one of
\* the two containers, and no such state is left when the move returns.
MoveTail(c, d) ==
    /\ todo # <<>>
    /\ Head(todo).k \in {"move", "set_empty"}
    /\ Head(todo).a \in {c, d}

C4_WindowClosedByNextStatement ==
    \A c, d \in ContIds :
        Aliased(c, d) =>
            /\ MoveTail(c, d)
            /\ last.op \in {"move_ctor", "move_assign", "copy_assign"}

C4_Witness ==
    /\ last.op = "move_assign"
    /\ \E c, d \in Users : Aliased(c, d)
    /\ todo # <<>> /\ Head(todo).k = "set_empty"

\* ---------------------------------------------------------------- C5
\* C5: c = c and c = std::move(c) run no statement at all: c keeps its
\* record and its payload, nothing is allocated, freed or destroyed, and a
\* later destruction of c frees its payload exactly once.
C5_SelfAssignNoOp ==
    (last.op \in {"copy_assign", "move_assign"} /\ last.a = last.b) =>
        /\ todo = <<>>
        /\ last.res = "ok"
        /\ Cur = pre
        /\ Destroyed(last.a).err = "none"
        /\ Destroyed(last.a).deallocs =
               deallocs + (IF Owns(Cur, last.a) THEN 1 ELSE 0)

C5_Witness ==
    /\ last.op = "move_assign" /\ last.a = last.b
    /\ Owns(Cur, last.a)
    /\ todo = <<>>

\* ---------------------------------------------------------------- C6
\* C6: when the copy of b's payload fails during a = b, a and b are exactly
\* as before, no temporary is left, and the heap and the balance of the
\* counters are as before.
C6_CopyAssignStrongGuarantee ==
    (todo = <<>> /\ last.op = "copy_assign" /\ Failed) =>
        /\ conts = pre.conts
        /\ heap = pre.heap
        /\ allocs - deallocs = pre.allocs - pre.deallocs
        /\ err = "none"

C6_Witness ==
    /\ todo = <<>> /\ last.op = "copy_assign" /\ last.res = "throw"
    /\ Owns(Cur, last.a) /\ Owns(Cur, last.b)

\* ---------------------------------------------------------------- C7
\* C7: a copy-constructed container holds a value equal to the source's in
\* a payload of its own, and an operation changes the value held by no
\* container other than the one it assigns, constructs, destroys or moves
\* from.
Written(c) ==
    \/ c = last.a
    \/ c = last.b /\ last.op \in {"move_ctor", "move_assign"}

C7_CopyIndependence ==
    /\ Completed("copy_ctor") =>
        /\ Held(Cur, last.a) = Held(pre, last.b)
        /\ Owns(Cur, last.b) =>
            /\ Owns(Cur, last.a)
            /\ conts[last.a].buf # conts[last.b].buf
            /\ HasLive(Cur, conts[last.a].desc.t, last.a)
    /\ Returning =>
        \A c \in Users : ~Written(c) => Held(Cur, c) = Held(pre, c)

C7_Witness ==
    /\ Completed("copy_ctor")
    /\ Owns(Cur, last.a) /\ Owns(Cur, last.b)
    /\ heap[conts[last.a].buf.a].used

\* ---------------------------------------------------------------- C8
\* C8: a call of an empty container fails with bad_function_call without
\* reading the slot and leaves the whole state as it was.
C8_BadCall ==
    (last.op = "call" /\ ~Bool(pre, last.a)) =>
        /\ last.res = "bad_function_call"
        /\ ~last.read
        /\ Cur = pre
        /\ conts[last.a].live

\* The empty container called is a moved-from one with stale pointer bytes.
C8_Witness ==
    /\ last.op = "call" /\ last.res = "bad_function_call"
    /\ conts[last.a].buf.k = "ptr"

\* ---------------------------------------------------------------- C9
\* C9: bool(c) is false after default construction and for a moved-from
\* container, true after construction from a value, equal to the source's
\* after a copy or a move, and changed by nothing else; operator bool
\* returns exactly that.
HoldsExpected(c) ==
    IF c = last.a /\ last.op = "default_ctor" THEN FALSE
    ELSE IF c = last.a /\ last.op = "value_ctor" THEN TRUE
    ELSE IF last.a = last.b THEN Bool(pre, c)
    ELSE IF c = last.a /\ last.op \in {"copy_ctor", "move_ctor", "copy_assign", "move_assign"}
    THEN Held(pre, last.b).st = "holding"
    ELSE IF c = last.b /\ last.op \in {"move_ctor", "move_assign"} THEN FALSE
    ELSE Held(pre, c).st = "holding"

C9_BoolTracksState ==
    /\ (Returning /\ last.res = "ok" /\ last.op # "dtor") =>
        \A c \in Users : conts[c].live => (Bool(Cur, c) <=> HoldsExpected(c))
    /\ last.op = "bool" =>
        (last.res = "true" <=> Held(pre, last.a).st = "holding")
    /\ \A c \in Users :
        (todo = <<>> /\ conts[c].live) =>
            (Bool(Cur, c) <=> \E T \in Types : conts[c].desc = get_func_descriptor(T)
                                               /\ HasLive(Cur, T, c))

C9_Witness ==
    /\ last.op = "bool" /\ last.res = "false"
    /\ conts[last.a].buf.k = "ptr"
    /\ heap[conts[last.a].buf.a].used

\* --------------------------------------------------------------- C10
\* C10: target<T>() returns a view of the held value exactly when the
\* object in the slot is a T, null for an empty container and for one that
\* holds another type, and changes nothing.
ObjectType(S, c) ==
    LET b == S.conts[c].buf
    IN IF ~Bool(S, c) THEN "none"
       ELSE IF b.k = "obj" THEN b.t
       ELSE IF b.k = "ptr" /\ S.heap[b.a].used THEN S.heap[b.a].t
       ELSE "none"

ObjectValue(S, c) ==
    LET b == S.conts[c].buf
    IN IF b.k = "obj" THEN b.v
       ELSE IF b.k = "ptr" THEN S.heap[b.a].v
       ELSE 0

C10_TargetExact ==
    last.op = "target" =>
        /\ (last.view # NullView) <=> (ObjectType(pre, last.a) = last.t)
        /\ last.view # NullView =>
            /\ last.view.t = last.t
            /\ last.view.v = ObjectValue(pre, last.a)
            /\ last.view.c = last.a
        /\ Cur = pre

\* target<Small>() on a container holding a Twin: same layout, other type.
C10_Witness ==
    /\ last.op = "target" /\ last.t = "Small"
    /\ Held(Cur, last.a).t = "Twin"
    /\ last.view = NullView

\* ----------------------------------------------------------------- C11
\* C11: after function c(v) has returned for a value v of type T, small or
\* not, target<T>() on c is not null and the T it refers to is v.
C11_RoundTrip ==
    Completed("value_ctor") =>
        LET p == target(Cur, last.a, last.t)
        IN /\ p # NullView
           /\ p.where = (IF is_small(last.t) THEN "buf" ELSE "heap")
           /\ p.t = last.t
           /\ p.v = last.v

\* A value of a type that is not small has been stored and is read back.
C11_Witness ==
    /\ Completed("value_ctor")
    /\ ~is_small(last.t)
    /\ target(Cur, last.a, last.t).where = "heap"
    /\ target(Cur, last.a, last.t).v = last.v

\* ----------------------------------------------------------------- C12
\* Does c hold a payload that lives in its slot?
HoldsInline(S, c) ==
    S.conts[c].live /\ Bool(S, c) /\ is_small(S.conts[c].desc.t)

Count(b) == IF b THEN 1 ELSE 0

\* C12: after a = std::move(b) with a and b distinct, whatever the two held:
\* a holds what b held (or is empty if b was), b is empty, the payload a held
\* has been destroyed exactly once, and nothing has been allocated.
C12_MoveAssignOutcome ==
    (Completed("move_assign") /\ last.a # last.b) =>
        LET a == last.a
            b == last.b
        IN /\ Held(Cur, a) = Held(pre, b)
           /\ Held(Cur, b).st = "empty"
           /\ allocs = pre.allocs
           /\ heap = [x \in Addrs |->
                        IF Owns(pre, a) /\ pre.conts[a].buf = PtrTo(x)
                        THEN FreeCell ELSE pre.heap[x]]
           /\ deallocs = pre.deallocs + Count(Owns(pre, a))
           /\ ended = Count(HoldsInline(pre, a)) + Count(HoldsInline(pre, b))
           /\ made = Count(HoldsInline(pre, b))
           /\ Owns(pre, b) => conts[a].buf = pre.conts[b].buf
           /\ \A c \in ContIds \ {a, b} : conts[c] = pre.conts[c]

\* A move assignment that replaced a heap payload by another payload.
C12_Witness ==
    /\ Completed("move_assign")
    /\ last.a # last.b
    /\ Owns(pre, last.a)
    /\ Held(pre, last.b).st = "holding"
    /\ Held(Cur, last.a) = Held(pre, last.b)

\* ----------------------------------------------------------------- C13
\* The types the small-buffer optimisation is promised for.
SmallEligible(T) ==
    SizeOf(T) <= PtrSize /\ PtrAlign % AlignOf(T) = 0 /\ NothrowMove(T)

\* c is absent, empty or holds a payload of a small-eligible type.
NoHeapPayload(S, c) ==
    S.conts[c].live /\ S.conts[c].desc.rec = "func"
        => SmallEligible(S.conts[c].desc.t)

\* The operands of the running call, as they were when it began.
Operands == {last.a} \cup (IF last.b \in ContIds THEN {last.b} ELSE {})

\* C13: constructing a container from a value of a small-eligible type
\* allocates nothing, and neither does any later copy, move, assignment or
\* destruction whose operands hold only such payloads: the heap and both
\* counters are left as they were, at every statement of the call.
C13_SmallBufferNoHeap ==
    /\ (last.op = "value_ctor" /\ SmallEligible(last.t)) =>
           allocs = pre.allocs /\ deallocs = pre.deallocs /\ heap = pre.heap
    /\ (/\ last.op \in {"copy_ctor", "move_ctor", "copy_assign",
                        "move_assign", "dtor"}
        /\ \A c \in Operands : NoHeapPayload(pre, c)) =>
           allocs = pre.allocs /\ deallocs = pre.deallocs /\ heap = pre.heap
    /\ Completed("value_ctor") /\ SmallEligible(last.t) =>
           conts[last.a].buf = InlineObj(last.t, last.v)

\* A small payload has been copied from one container to another.
C13_Witness ==
    /\ Completed("copy_assign")
    /\ last.a # last.b
    /\ HoldsInline(pre, last.b)
    /\ HoldsInline(pre, last.a)
    /\ SmallEligible(conts[last.a].desc.t)
    /\ conts[last.a].buf.k = "obj"

\* ----------------------------------------------------------------- C14
\* The slot of c holds a live T, inline or on the heap as T's size,
\* alignment and move call for.
LaidOutFor(S, T, c) ==
    LET b == S.conts[c].buf
    IN IF SmallEligible(T)
       THEN b.k = "obj" /\ b.t = T
       ELSE b.k = "ptr" /\ b.a \in Addrs /\ S.heap[b.a].used /\ S.heap[b.a].t = T

\* C14: whenever no public operation is in progress, every container is
\* either bound to the empty record, with no live object in its slot and no
\* heap payload of its own, or bound to the record of one type T with a
\* live T laid out as is_small(T) says; the temporaries of copy assignment
\* and swap are gone and every heap payload belongs to a bound container.
C14_RecordSlotConsistency ==
    todo = <<>> =>
        /\ \A c \in ContIds : conts[c].live =>
              IF conts[c].desc = get_empty_func_descriptor
              THEN conts[c].buf.k # "obj" /\ \A x \in Addrs : c \notin Owners(Cur, x)
              ELSE /\ conts[c].desc \in {get_func_descriptor(T) : T \in Types}
                   /\ LaidOutFor(Cur, conts[c].desc.t, c)
        /\ \A x \in Addrs : heap[x].used => Owners(Cur, x) # {}
        /\ ~conts[TmpCopy].live /\ ~conts[TmpSwap].live
        /\ err = "none"

\* A container bound to a record over a slot that once held something else:
\* it held a small object, and a heap payload was then moved into it.
C14_Witness ==
    /\ Completed("move_assign")
    /\ last.a # last.b
    /\ HoldsInline(pre, last.a)
    /\ Owns(Cur, last.a)
    /\ LaidOutFor(Cur, conts[last.a].desc.t, last.a)
    /\ conts[last.b].desc = get_empty_func_descriptor
    /\ conts[last.b].buf.k = "ptr"

\* ----------------------------------------------------------------- C15
\* An assignment in progress that replaces one payload by another.
Replacing ==
    /\ last.op \in {"copy_assign", "move_assign"}
    /\ last.a # last.b
    /\ ~Failed
    /\ Held(pre, last.a).st = "holding"
    /\ Held(pre, last.b).st = "holding"

Pending(k, c) == \E i \in DOMAIN todo : todo[i].k = k /\ todo[i].a = c

\* The container whose destruction ends the old payload: *this in move
\* assignment (line 127), the temporary of line 118 in copy assignment.
Carrier == IF last.op = "copy_assign" THEN TmpCopy ELSE last.a

OldDestroyed == ~Pending("destroy", Carrier)

\* The heap cell *this owned when the assignment began has been freed.
OldFreed == ~heap[pre.conts[last.a].buf.a].used

\* The copy of rhs's payload has been made (copy assignment only).
NewCreated == last.op = "copy_assign" /\ ~Pending("copy", TmpCopy)

\* The new payload has been put into *this.
NewInstalled == ~Pending("move", last.a)

\* C15 as stated: in an assignment that replaces a payload, the old payload
\* has been destroyed by the time the new one is created or installed.
C15_OldPayloadDestroyedFirst ==
    Replacing => ((NewCreated \/ NewInstalled) => OldDestroyed)

\* C15, amended: move assignment destroys the old payload before *this
\* takes the new record and payload; copy assignment creates the new payload
\* and installs it in *this while the old payload is still alive, and the old
\* payload is destroyed, once, before the assignment returns.
C15_ReplacementOrder ==
    Replacing =>
        /\ Owns(pre, last.a) => (OldFreed <=> OldDestroyed)
        /\ last.op = "move_assign" =>
              /\ NewInstalled => OldDestroyed
              /\ conts[last.a].desc # pre.conts[last.a].desc => OldDestroyed
        /\ last.op = "copy_assign" =>
              (OldDestroyed => (NewCreated /\ NewInstalled))
        /\ todo = <<>> =>
              /\ OldDestroyed /\ NewInstalled
              /\ deallocs = pre.deallocs + Count(Owns(pre, last.a))
              /\ Held(Cur, last.a) = Held(pre, last.b)

\* Copy assignment has installed the new payload and the heap cell *this
\* owned before is still allocated.
C15_Witness ==
    /\ Replacing
    /\ last.op = "copy_assign"
    /\ Owns(pre, last.a)
    /\ NewCreated
    /\ NewInstalled
    /\ ~OldFreed
    /\ Held(Cur, last.a) = Held(pre, last.b)

\* ----------------------------------------------------------------- C16
\* C16: when the allocation or T's constructor fails in a copy construction
\* or a construction from a value, the new container does not exist, the
\* heap is as before the attempt with as many allocations outstanding, no
\* object is left in a slot, and every other container, the source of a copy
\* included, is unchanged.
C16_FailedConstructionLeaksNothing ==
    (Returning /\ last.op \in {"copy_ctor", "value_ctor"} /\ Failed) =>
        /\ ~conts[last.a].live
        /\ conts = pre.conts
        /\ heap = pre.heap
        /\ allocs - deallocs = pre.allocs - pre.deallocs
        /\ allocs = pre.allocs + Count(last.res = "throw" /\ ~SmallEligible(
               IF last.op = "value_ctor" THEN last.t ELSE pre.conts[last.b].desc.t))
        /\ made = ended
        /\ err = "none"

\* The copy constructor of a payload that is not small has thrown after the
\* memory for the copy had been allocated.
C16_Witness ==
    /\ Returning
    /\ last.op = "copy_ctor"
    /\ last.res = "throw"
    /\ Owns(Cur, last.b)
    /\ allocs = pre.allocs + 1
    /\ deallocs = pre.deallocs + 1

\* ----------------------------------------------------------------- C17
\* C17: a call of a container that is not empty, whatever operations gave
\* it its payload, returns what the object in its slot or heap cell returns
\* for the same argument, does not raise bad_function_call, and changes
\* neither records, slots nor heap.
C17_InvokeForwards ==
    (last.op = "call" /\ Bool(pre, last.a)) =>
        /\ last.res = "ok"
        /\ last.read
        /\ ObjectType(pre, last.a) \in Types
        /\ last.ret = Call(ObjectType(pre, last.a), ObjectValue(pre, last.a), last.v)
        /\ Cur = pre

\* A call of a container whose heap payload was moved into it: the container
\* it came from is empty and its slot still has the old pointer.
C17_Witness ==
    /\ last.op = "call"
    /\ last.res = "ok"
    /\ Owns(Cur, last.a)
    /\ \E d \in Users \ {last.a} :
          /\ conts[d].live
          /\ ~Bool(Cur, d)
          /\ conts[d].buf = conts[last.a].buf
    /\ last.ret = Call("Big", heap[conts[last.a].buf.a].v, last.v)

\* ----------------------------------------------------------------- C18
\* The slots that hold a T whose destructor has not run.
InlineLive(S) == Cardinality({c \in ContIds : S.conts[c].buf.k = "obj"})

\* C18: in-slot constructions less in-slot destructions is, in every state,
\* the number of slots holding a live T: no object is constructed over a
\* live one, none is dropped with its container, and no destructor runs on a
\* slot without a live T.  Between operations every live in-slot object is
\* the payload of a container bound to its type, so the source slot of a
\* move keeps no object; when no container is left, constructions equal
\* destructions.
C18_InlineLifetimeBalance ==
    /\ err # "bad_destroy"
    /\ inl = InlineLive(Cur)
    /\ last.op # "none" => made - ended = InlineLive(Cur) - InlineLive(pre)
    /\ todo = <<>> =>
          \A c \in ContIds : conts[c].buf.k = "obj" =>
              /\ conts[c].live
              /\ conts[c].desc = get_func_descriptor(conts[c].buf.t)
              /\ SmallEligible(conts[c].buf.t)
    /\ (last.op \in {"move_ctor", "move_assign"} /\ todo = <<>>
            /\ last.a # last.b /\ HoldsInline(pre, last.b)) =>
          /\ conts[last.b].buf = Gone
          /\ made = 1
          /\ ended = 1 + Count(last.op = "move_assign" /\ HoldsInline(pre, last.a))
    /\ (\A c \in ContIds : ~conts[c].live) => inl = 0

\* A small object has been move-assigned over another small object: the old
\* payload and the moved-from object have each had their destructor run.
C18_Witness ==
    /\ Completed("move_assign")
    /\ last.a # last.b
    /\ HoldsInline(pre, last.a)
    /\ HoldsInline(pre, last.b)
    /\ HoldsInline(Cur, last.a)
    /\ conts[last.b].buf = Gone
    /\ made = 1
    /\ ended = 2
    /\ inl = 1

\* ----------------------------------------------------------------- C19
\* C19: after a = b has completed for distinct a and b, whatever the two
\* held: a holds a value equal to b's in a payload of its own (or is empty
\* if b is), b and its payload are untouched, the payload a held has been
\* destroyed exactly once, and the temporaries of the assignment are gone
\* without leaving a heap cell or an in-slot object behind.
C19_CopyAssignOutcome ==
    (Completed("copy_assign") /\ last.a # last.b) =>
        LET a == last.a
            b == last.b
        IN /\ Held(Cur, a) = Held(pre, b)
           /\ Bool(Cur, a) => LaidOutFor(Cur, conts[a].desc.t, a)
           /\ Owns(Cur, a) =>
                 /\ conts[a].buf # conts[b].buf
                 /\ ~pre.heap[conts[a].buf.a].used
                 /\ Owners(Cur, conts[a].buf.a) = {a}
           /\ \A c \in ContIds \ {a} : conts[c] = pre.conts[c]
           /\ \A x \in Addrs :
                 heap[x] = IF Owns(pre, a) /\ pre.conts[a].buf = PtrTo(x)
                           THEN FreeCell
                           ELSE IF Owns(Cur, a) /\ conts[a].buf = PtrTo(x)
                           THEN HeapObj(Held(pre, b).t, Held(pre, b).v)
                           ELSE pre.heap[x]
           /\ allocs = pre.allocs + Count(Owns(pre, b))
           /\ deallocs = pre.deallocs + Count(Owns(pre, a))
           /\ made = 3 * Count(HoldsInline(pre, b)) + Count(HoldsInline(pre, a))
           /\ ended = 2 * Count(HoldsInline(pre, b)) + 2 * Count(HoldsInline(pre, a))
           /\ ~conts[TmpCopy].live /\ ~conts[TmpSwap].live
           /\ inl = InlineLive(Cur)

\* A copy assignment that replaced a heap payload by a copy of another heap
\* payload: two cells in use, the old one freed.
C19_Witness ==
    /\ Completed("copy_assign")
    /\ last.a # last.b
    /\ Owns(pre, last.a)
    /\ Owns(pre, last.b)
    /\ Owns(Cur, last.a)
    /\ conts[last.a].buf # conts[last.b].buf
    /\ ~heap[pre.conts[last.a].buf.a].used
    /\ Held(Cur, last.a) = Held(Cur, last.b)

====
